---- MODULE Spec2Model ----
(***************************************************************************)
(* Model of httpcore/adapters/redirects.py: the RedirectAdapter, which     *)
(* follows HTTP redirects on top of a dispatching transport.               *)
(*                                                                         *)
(* Python lists and sets are heap objects that are shared by reference     *)
(* (the history list and the seen_urls set travel inside the keyword       *)
(* options of functools.partial), so the model keeps a heap of lists, a    *)
(* heap of sets and a heap of Response objects, and calls hold indexes     *)
(* into them.                                                              *)
(***************************************************************************)
EXTENDS Integers, Sequences, FiniteSets, TLC

VARIABLES
    max_redirects,  \* RedirectAdapter.max_redirects
    transport,      \* the dispatcher's behaviour: (method, url) -> reply, fixed lazily
    responses,      \* heap of Response objects
    lists,          \* heap of Python lists of Response references
    sets,           \* heap of Python sets of URLs
    calls,          \* the invocations of RedirectAdapter.send, in start order
    rule_in,        \* input of build_redirect_request (rules specification)
    rule_out        \* its result (rules specification)

vars == <<max_redirects, transport, responses, lists, sets, calls, rule_in, rule_out>>

-----------------------------------------------------------------------------
(* Bounds                                                                  *)

MaxRedirectsBound == 2
MaxCalls == 3
PairMaxRedirects == 1

-----------------------------------------------------------------------------
(* Data: status codes, URLs, requests                                      *)

see_other == 303
found == 302
moved_permanently == 301
temporary_redirect == 307
permanent_redirect == 308
ok == 200

RedirectCodes == {moved_permanently, found, see_other, temporary_redirect, permanent_redirect}

\* Response.is_redirect: classification from the status code.
is_redirect(response) == response.status_code \in RedirectCodes

StreamBody == "<stream>"

\* Request.is_streaming: the body is a stream that cannot be replayed.
is_streaming(request) == request.body = StreamBody

\* Request(method=..., url=..., headers=..., body=...)
Request(method, url, headers, body) ==
    [method |-> method, url |-> url, headers |-> headers, body |-> body]

\* URL(...): the components the adapter reads.  port 0 stands for "no port
\* given in the URL".
URL(scheme, host, port, path, fragment) ==
    [scheme |-> scheme, host |-> host, port |-> port, path |-> path,
     fragment |-> fragment]

DefaultPort(scheme) == IF scheme = "https" THEN 443 ELSE 80

\* URL.origin: scheme, host and port (the scheme's default when none given).
Origin(url) ==
    <<url.scheme, url.host, IF url.port = 0 THEN DefaultPort(url.scheme) ELSE url.port>>

\* utils.requote_uri: percent-encode what is unsafe, keep what is encoded.
requote_uri(path) == IF path = "/x y" THEN "/x%20y" ELSE path

\* A Location header value, by the components urlparse finds in it:
\*   scheme "" and has_netloc FALSE : "/path#fragment" (relative reference)
\*   scheme "" and has_netloc TRUE  : "//host:port/path#fragment"
\*   scheme given                   : "scheme://host:port/path#fragment"
Location(scheme, has_netloc, host, port, path, fragment) ==
    [scheme |-> scheme, has_netloc |-> has_netloc, host |-> host, port |-> port,
     path |-> path, fragment |-> fragment]

-----------------------------------------------------------------------------
(* Request transformation rules                                            *)

\* rfc7231 6.4.4: a 303 turns every method but HEAD into GET.
rule_see_other(status_code, method) ==
    IF status_code = see_other /\ method # "HEAD" THEN "GET" ELSE method

\* Mutant: the 302 rule without the HEAD exemption.
rule_found_any_method(status_code, method) ==
    IF status_code = found THEN "GET" ELSE method

\* Turn 302s into GETs.
rule_found(status_code, method) ==
    IF status_code = found /\ method # "HEAD" THEN "GET" ELSE method

\* If a POST is responded to with a 301, turn it into a GET.
rule_moved_permanently(status_code, method) ==
    IF status_code = moved_permanently /\ method = "POST" THEN "GET" ELSE method

redirect_method(request, response) ==
    rule_moved_permanently(response.status_code,
        rule_found(response.status_code,
            rule_see_other(response.status_code, request.method)))

\* Mutant: the previous fragment is never attached.
redirect_url_drop_fragment(request, response) ==
    LET location == response.location
        scheme == IF location.scheme = "" /\ location.has_netloc
                  THEN request.url.scheme ELSE location.scheme
    IN  IF ~location.has_netloc
        THEN URL(request.url.scheme, request.url.host, request.url.port,
                 IF location.path = "" THEN request.url.path
                 ELSE requote_uri(location.path),
                 location.fragment)
        ELSE URL(scheme, location.host, location.port,
                 requote_uri(location.path), location.fragment)

redirect_url(request, response) ==
    LET location == response.location
        \* location.startswith("//"): prefix the request's scheme
        scheme == IF location.scheme = "" /\ location.has_netloc
                  THEN request.url.scheme ELSE location.scheme
        \* attach the previous fragment if the target has none
        fragment == IF location.fragment = "" /\ request.url.fragment # ""
                    THEN request.url.fragment ELSE location.fragment
    IN  IF ~location.has_netloc
        THEN \* urljoin(str(request.url), requote_uri(url))
             URL(request.url.scheme, request.url.host, request.url.port,
                 IF location.path = "" THEN request.url.path
                 ELSE requote_uri(location.path),
                 fragment)
        ELSE \* requote_uri(url)
             URL(scheme, location.host, location.port,
                 requote_uri(location.path), fragment)

\* Mutant: the headers are sent on as they are.
redirect_headers_keep(request, url) == request.headers

\* Mutant: origins compared by host alone.
redirect_headers_by_host(request, url) ==
    IF url.host # request.url.host
    THEN request.headers \ {"authorization"}
    ELSE request.headers

redirect_headers(request, url) ==
    IF Origin(url) # Origin(request.url)
    THEN request.headers \ {"authorization"}
    ELSE request.headers

\* Mutant: the body is dropped for every GET, changed method or not.
redirect_body_any_get(request, method) ==
    IF method = "GET"
    THEN [raised |-> FALSE, body |-> ""]
    ELSE IF is_streaming(request)
    THEN [raised |-> TRUE, body |-> ""]
    ELSE [raised |-> FALSE, body |-> request.body]

\* raised: RedirectBodyUnavailable
redirect_body(request, method) ==
    IF method # request.method /\ method = "GET"
    THEN [raised |-> FALSE, body |-> ""]
    ELSE IF is_streaming(request)
    THEN [raised |-> TRUE, body |-> ""]
    ELSE [raised |-> FALSE, body |-> request.body]

\* The next request, or the error its construction raises.
build_redirect_request(request, response) ==
    LET method == redirect_method(request, response)
        url == redirect_url(request, response)
        headers == redirect_headers(request, url)
        body == redirect_body(request, method)
    IN  [raised |-> body.raised,
         request |-> Request(method, url, headers, body.body)]

-----------------------------------------------------------------------------
(* Inputs: the requests callers send and the replies the dispatcher gives  *)

NoLocation == Location("", FALSE, "", 0, "", "")

UrlAX == URL("http", "a.example", 0, "/x", "")
UrlAY == URL("http", "a.example", 0, "/y", "")
UrlBY == URL("http", "b.example", 0, "/y", "")

AbsLocation(url) ==
    Location(url.scheme, TRUE, url.host, url.port, url.path, url.fragment)

Requests ==
    { Request("POST", UrlAX, {"authorization"}, "data"),
      Request("POST", UrlAX, {"authorization"}, StreamBody),
      Request("HEAD", UrlAY, {}, "") }

Reply(status_code, location) == [status_code |-> status_code, location |-> location]

Replies ==
    { Reply(ok, NoLocation) } \cup
    { Reply(s, AbsLocation(u)) : s \in {found, temporary_redirect}, u \in {UrlAX, UrlAY, UrlBY} }

\* The dispatcher answers a request by its method and URL: the same request
\* line gets the same reply whenever and by whichever call it is sent.
Key(request) == <<request.method, request.url>>

-----------------------------------------------------------------------------
(* RedirectAdapter.send                                                    *)

\* Mutant: response.next is never set.
no_partial(request, history, seen_urls, options) == <<>>

\* Mutant: allow_redirects is left in the options the partial captures; the
\* partial is only made when it is False.
partial_with_flag(request, history, seen_urls, options) ==
    <<[request |-> request, history |-> history, seen_urls |-> seen_urls,
       options |-> options, allow_redirects |-> <<FALSE>>]>>

\* functools.partial(self.send, request=request, **next_options): the
\* request, references to the history list and the seen_urls set, and the
\* caller's other options.  allow_redirects was popped from the options at
\* line 22, so the partial holds no value for it (<<>>).
partial(request, history, seen_urls, options) ==
    <<[request |-> request, history |-> history, seen_urls |-> seen_urls,
       options |-> options, allow_redirects |-> <<>>]>>

\* options.pop("allow_redirects", True) in a call through a partial: the
\* keyword given at the call, else the one the partial holds, else True.
\* A keyword is <<>> when absent and <<value>> when given.
allow_redirects_option(given, captured) ==
    IF given # <<>> THEN given[1]
    ELSE IF captured # <<>> THEN captured[1]
    ELSE TRUE

\* Mutant: the caller's options are not handed on.
dispatch_no_options(options) == {}

\* self.dispatch.send(request, **options): the options handed to the
\* dispatcher are the caller's, less the three popped at lines 22 to 24.
dispatch_options(options) == options

\* The Response object a dispatcher reply becomes once the adapter has
\* stamped it: history refers to a list, next is <<>> (None) or a partial.
Response(reply, history, next) ==
    [status_code |-> reply.status_code, location |-> reply.location,
     history |-> history, next |-> next]

\* Mutant: response.history = history, the accumulated list itself.
aliased_list(history, copy) == history

\* response.history = list(history): the list the stamp refers to is the
\* fresh copy, not the accumulated list itself.
stamped_list(history, copy) == copy

\* Mutant: the limit is reached one redirect early.
too_many_redirects_early(history) == Len(history) >= max_redirects

\* Mutant: the limit is never reached.
too_many_redirects_never(history) == FALSE

\* len(history) > self.max_redirects
too_many_redirects(history) == Len(history) > max_redirects

\* Mutant: no URL is ever found in seen_urls.
is_loop_never(url, seen_urls) == FALSE

\* request.url in seen_urls
is_loop(url, seen_urls) == url \in seen_urls

\* Mutant: the loop check comes before the limit check.
guard_loop_first(history, url, seen_urls) ==
    IF is_loop(url, seen_urls) THEN "RedirectLoop"
    ELSE IF too_many_redirects(history) THEN "TooManyRedirects"
    ELSE ""

\* The two checks that end an automatic chain, in the order of lines 40 to
\* 43: the error raised, or "" when the chain goes on.
guard(history, url, seen_urls) ==
    IF too_many_redirects(history) THEN "TooManyRedirects"
    ELSE IF is_loop(url, seen_urls) THEN "RedirectLoop"
    ELSE ""

\* Mutant: the flag is ignored and every call follows redirects itself.
never_suspends(allow_redirects) == FALSE

\* if not allow_redirects: the call stops at the first redirect.
suspends(allow_redirects) == ~allow_redirects

\* Mutant: the URL is not recorded.
seen_urls_unchanged(seen_urls, url) == seen_urls

\* seen_urls.add(request.url)
seen_urls_add(seen_urls, url) == seen_urls \cup {url}

\* Mutant: one default list shared by every call that passes no history.
shared_history(heap) == 1

\* options.pop("history", []) and options.pop("seen_urls", set()) without
\* the option given: a new object each time, the next free heap cell.
default_history(heap) == Len(heap) + 1

default_seen_urls(heap) == Len(heap) + 1

\* A call that has just entered send: line 25 has added the request's URL
\* to seen_urls and the request is handed to the dispatcher.  The fields
\* first, sent, got, base, revisit and next_visited are history variables:
\* the request the call was given, the requests handed to the dispatcher,
\* the responses received, the history on entry, whether the URL was in
\* seen_urls before line 25, and whether the last built request's URL was
\* in seen_urls when it was built.
NewCall(kind, from, request, allow_redirects, history, seen_urls, base, revisit) ==
    [kind |-> kind, from |-> from, allow_redirects |-> allow_redirects,
     first |-> request, request |-> request,
     history |-> history, seen_urls |-> seen_urls,
     pc |-> "await", response |-> 0, error |-> "",
     sent |-> <<request>>, got |-> <<>>,
     base |-> base, revisit |-> revisit, next_visited |-> FALSE,
     options |-> {}, explicit |-> TRUE, passed |-> <<>>]

\* NewCall with the caller's other options, whether allow_redirects was
\* given at the call, and the options handed to the dispatcher with the
\* first request (passed: a history variable, one entry per send).
WithOptions(call, options, explicit) ==
    [call EXCEPT !.options = options, !.explicit = explicit,
                 !.passed = <<dispatch_options(options)>>]

\* A top-level send(request, allow_redirects=...): history and seen_urls
\* default to a fresh list and a fresh set.
Send(request, allow_redirects, options) ==
    /\ Len(calls) < MaxCalls
    /\ LET history == default_history(lists)
           seen_urls == default_seen_urls(sets)
           grown == Append(sets, {})
       IN  /\ lists' = Append(lists, <<>>)
           /\ sets' = [grown EXCEPT ![seen_urls] = seen_urls_add(@, request.url)]
           /\ calls' = Append(calls,
                   WithOptions(
                       NewCall("send", 0, request, allow_redirects, history, seen_urls,
                               Append(lists, <<>>)[history],
                               request.url \in grown[seen_urls]),
                       options, TRUE))
    /\ UNCHANGED <<max_redirects, transport, responses, rule_in, rule_out>>

\* A call of response.next with the keyword allow_redirects given (<<v>>) or
\* not (<<>>): send is entered with the captured request, history list,
\* seen_urls set and options.
Invoke(r, given) ==
    /\ Len(calls) < MaxCalls
    /\ responses[r].next # <<>>
    /\ LET next == responses[r].next[1] IN
        /\ sets' = [sets EXCEPT ![next.seen_urls] = seen_urls_add(@, next.request.url)]
        /\ calls' = Append(calls,
                WithOptions(
                    NewCall("next", r, next.request,
                            allow_redirects_option(given, next.allow_redirects),
                            next.history, next.seen_urls, lists[next.history],
                            next.request.url \in sets[next.seen_urls]),
                    next.options, given # <<>>))
    /\ UNCHANGED <<max_redirects, transport, responses, lists, rule_in, rule_out>>

\* response.next(allow_redirects=...)
InvokeNext(r, allow_redirects) == Invoke(r, <<allow_redirects>>)

\* response.next()
InvokeNextDefault(r) == Invoke(r, <<>>)

\* One turn of the while loop, from the dispatcher's reply to the next
\* await, return or raise.
LoopBody(c, reply) ==
    LET call == calls[c]
        r == Len(responses) + 1
        copy == Len(lists) + 1
        stamp == stamped_list(call.history, copy)
        plain == Response(reply, stamp, <<>>)
        history == Append(lists[call.history], r)
        built == build_redirect_request(call.request, plain)
        next == built.request
        got == Append(call.got, r)
        visited == next.url \in sets[call.seen_urls]
        error == guard(history, next.url, sets[call.seen_urls])
    IN  IF ~is_redirect(plain)
        THEN /\ responses' = Append(responses, plain)
             /\ lists' = Append(lists, lists[call.history])
             /\ calls' = [calls EXCEPT ![c] =
                    [call EXCEPT !.pc = "returned", !.response = r, !.got = got]]
             /\ UNCHANGED sets
        ELSE /\ lists' = [Append(lists, lists[call.history])
                            EXCEPT ![call.history] = history]
             /\ IF built.raised
                THEN /\ responses' = Append(responses, plain)
                     /\ calls' = [calls EXCEPT ![c] =
                            [call EXCEPT !.pc = "raised", !.got = got,
                                         !.error = "RedirectBodyUnavailable"]]
                     /\ UNCHANGED sets
                ELSE IF suspends(call.allow_redirects)
                THEN /\ responses' = Append(responses,
                            Response(reply, stamp,
                                     partial(next, call.history, call.seen_urls,
                                             call.options)))
                     /\ calls' = [calls EXCEPT ![c] =
                            [call EXCEPT !.pc = "returned", !.response = r,
                                         !.request = next, !.got = got,
                                         !.next_visited = visited]]
                     /\ UNCHANGED sets
                ELSE /\ responses' = Append(responses, plain)
                     /\ IF error # ""
                        THEN /\ calls' = [calls EXCEPT ![c] =
                                    [call EXCEPT !.pc = "raised", !.got = got,
                                                 !.request = next,
                                                 !.next_visited = visited,
                                                 !.error = error]]
                             /\ UNCHANGED sets
                        ELSE /\ sets' = [sets EXCEPT ![call.seen_urls] =
                                            seen_urls_add(@, next.url)]
                             /\ calls' = [calls EXCEPT ![c] =
                                    [call EXCEPT !.request = next, !.got = got,
                                                 !.next_visited = visited,
                                                 !.sent = Append(@, next),
                                                 !.passed = Append(@,
                                                    dispatch_options(call.options))]]

\* await self.dispatch.send(request, **options) returns a response.
DispatchReturns(c) ==
    /\ c \in 1..Len(calls)
    /\ calls[c].pc = "await"
    /\ LET key == Key(calls[c].request) IN
        IF key \in DOMAIN transport
        THEN /\ LoopBody(c, transport[key])
             /\ UNCHANGED transport
        ELSE \E reply \in Replies :
                /\ transport' = [k \in DOMAIN transport \cup {key} |->
                                    IF k = key THEN reply ELSE transport[k]]
                /\ LoopBody(c, reply)
    /\ UNCHANGED <<max_redirects, rule_in, rule_out>>

\* Mutant: the failed request is handed to the dispatcher once more before
\* the exception leaves send.
DispatchRaises_resend(c) ==
    /\ c \in 1..Len(calls)
    /\ calls[c].pc = "await"
    /\ calls' = [calls EXCEPT ![c] =
            [@ EXCEPT !.pc = "raised", !.error = "DispatchError",
                      !.sent = Append(@, calls[c].request)]]
    /\ UNCHANGED <<max_redirects, transport, responses, lists, sets, rule_in, rule_out>>

\* await self.dispatch.send(request, **options) raises (a network error or
\* a cancellation): the exception leaves send.
DispatchRaises(c) ==
    /\ c \in 1..Len(calls)
    /\ calls[c].pc = "await"
    /\ calls' = [calls EXCEPT ![c] =
            [@ EXCEPT !.pc = "raised", !.error = "DispatchError"]]
    /\ UNCHANGED <<max_redirects, transport, responses, lists, sets, rule_in, rule_out>>

\* The other options a caller gives, by name.
OptionSets == {{}, {"timeout"}}

Init ==
    /\ max_redirects \in 0..MaxRedirectsBound
    /\ transport = <<>>
    /\ responses = <<>>
    /\ lists = <<>>
    /\ sets = <<>>
    /\ calls = <<>>
    /\ rule_in = <<>>
    /\ rule_out = <<>>

\* The caller awaits each call before it makes the next one.
Idle == \A c \in 1..Len(calls) : calls[c].pc # "await"

\* One chain: a top-level send and the continuations it leads to, each
\* invoked as response.next(allow_redirects=False) or as response.next().
Next ==
    \/ \E request \in Requests, allow_redirects \in BOOLEAN, options \in OptionSets :
            calls = <<>> /\ Send(request, allow_redirects, options)
    \/ \E r \in 1..Len(responses) : Idle /\ InvokeNext(r, FALSE)
    \/ \E r \in 1..Len(responses) : Idle /\ InvokeNextDefault(r)
    \/ \E c \in 1..MaxCalls : DispatchReturns(c)
    \/ \E c \in 1..MaxCalls : DispatchRaises(c)

Spec == Init /\ [][Next]_vars

-----------------------------------------------------------------------------
(* The transformation rules on their own: build_redirect_request applied   *)
(* to one request and one redirect response.                               *)

Methods == {"GET", "POST", "PUT", "HEAD"}
Schemes == {"http", "https"}
Hosts == {"a.example", "b.example"}
Ports == {0, 8080}
Fragments == {"", "top"}

RuleRequests ==
    { Request(m, URL(s, "a.example", p, "/x", f), h, b) :
        m \in Methods, s \in Schemes, p \in Ports, f \in Fragments,
        h \in {{}, {"authorization"}, {"accept", "authorization"}},
        b \in {"", "data", StreamBody} }

RuleLocations ==
    { Location(s, TRUE, h, p, "/y", f) :
        s \in Schemes \cup {""}, h \in Hosts, p \in Ports, f \in Fragments } \cup
    { Location("", FALSE, "", 0, q, f) : q \in {"", "/y", "/x y"}, f \in Fragments }

InitRules ==
    /\ max_redirects = 0
    /\ transport = <<>>
    /\ responses = <<>>
    /\ lists = <<>>
    /\ sets = <<>>
    /\ calls = <<>>
    /\ rule_in \in { [request |-> q, response |-> Response(Reply(s, l), 0, <<>>)] :
                        q \in RuleRequests, s \in RedirectCodes, l \in RuleLocations }
    /\ rule_out = <<>>

\* request = self.build_redirect_request(request, response)
BuildRedirectRequest ==
    /\ rule_out = <<>>
    /\ rule_out' = <<build_redirect_request(rule_in.request, rule_in.response)>>
    /\ UNCHANGED <<max_redirects, transport, responses, lists, sets, calls, rule_in>>

NextRules == BuildRedirectRequest

SpecRules == InitRules /\ [][NextRules]_vars

-----------------------------------------------------------------------------
(* Two independent top-level calls whose steps interleave at the await.    *)

PairRequests ==
    { Request("POST", UrlAX, {"authorization"}, "data"),
      Request("HEAD", UrlAY, {}, "") }

NextPair ==
    \/ \E request \in PairRequests, allow_redirects \in BOOLEAN :
            Len(calls) < 2 /\ Send(request, allow_redirects, {})
    \/ \E c \in 1..2 : DispatchReturns(c)
    \/ \E c \in 1..2 : DispatchRaises(c)

InitPair ==
    /\ max_redirects = PairMaxRedirects
    /\ transport = <<>>
    /\ responses = <<>>
    /\ lists = <<>>
    /\ sets = <<>>
    /\ calls = <<>>
    /\ rule_in = <<>>
    /\ rule_out = <<>>

SpecPair == InitPair /\ [][NextPair]_vars

-----------------------------------------------------------------------------
(* The same request sent twice to the same dispatcher: first followed      *)
(* automatically, then stepped by hand, each continuation invoked with     *)
(* allow_redirects=False once the previous call has returned.              *)

LastCall == calls[Len(calls)]

NextCompare ==
    \/ \E request \in Requests : calls = <<>> /\ Send(request, TRUE, {})
    \/ Len(calls) = 1 /\ Idle /\ Send(calls[1].first, FALSE, {})
    \/ /\ Len(calls) > 1
       /\ LastCall.pc = "returned"
       /\ InvokeNext(LastCall.response, FALSE)
    \/ \E c \in 1..MaxCalls : DispatchReturns(c)

SpecCompare == Init /\ [][NextCompare]_vars

-----------------------------------------------------------------------------
(* Properties of the transformation rules (SpecRules)                      *)

RuleDone == rule_out # <<>>
RuleRequest == rule_in.request
RuleStatus == rule_in.response.status_code
RuleBuilt == rule_out[1]
RuleNext == rule_out[1].request

\* The method the three rules give when applied in the order <<i, j, k>>.
ApplyRule(i, status_code, method) ==
    CASE i = 1 -> rule_see_other(status_code, method)
      [] i = 2 -> rule_found(status_code, method)
      [] i = 3 -> rule_moved_permanently(status_code, method)

MethodInOrder(order, status_code, method) ==
    ApplyRule(order[3], status_code,
        ApplyRule(order[2], status_code,
            ApplyRule(order[1], status_code, method)))

RuleOrders ==
    { <<1, 2, 3>>, <<1, 3, 2>>, <<2, 1, 3>>, <<2, 3, 1>>, <<3, 1, 2>>, <<3, 2, 1>> }

\* The method table of the specification.
ExpectedMethod(status_code, method) ==
    IF status_code \in {see_other, found} /\ method # "HEAD" THEN "GET"
    ELSE IF status_code = moved_permanently /\ method = "POST" THEN "GET"
    ELSE method

\* C5: for every (status, method) pair the next method is GET for 303 and
\* 302 unless the method is HEAD, GET for 301 with POST, and otherwise the
\* current method; every order of the three rules gives that same method.
C5_MethodRewriting ==
    RuleDone =>
        /\ RuleNext.method = ExpectedMethod(RuleStatus, RuleRequest.method)
        /\ RuleRequest.method = "HEAD" => RuleNext.method = "HEAD"
        /\ RuleStatus \in {temporary_redirect, permanent_redirect}
                => RuleNext.method = RuleRequest.method
        /\ RuleNext.method \in {"GET", RuleRequest.method}
        /\ \A order \in RuleOrders :
                MethodInOrder(order, RuleStatus, RuleRequest.method) = RuleNext.method

\* A 301 has left a PUT unchanged.
C5_Witness ==
    /\ RuleDone
    /\ RuleStatus = moved_permanently
    /\ RuleRequest.method = "PUT"
    /\ RuleNext.method = "PUT"

SameOrigin(u, v) ==
    /\ u.scheme = v.scheme
    /\ u.host = v.host
    /\ (IF u.port = 0 THEN DefaultPort(u.scheme) ELSE u.port)
            = (IF v.port = 0 THEN DefaultPort(v.scheme) ELSE v.port)

\* C6: the next request's headers are the current ones except for
\* Authorization, which is kept when the next URL has the origin of the
\* current URL and is absent when the origins differ.
C6_AuthorizationByOrigin ==
    RuleDone /\ ~RuleBuilt.raised =>
        /\ RuleNext.headers \ {"authorization"} = RuleRequest.headers \ {"authorization"}
        /\ SameOrigin(RuleNext.url, RuleRequest.url)
                => ("authorization" \in RuleNext.headers
                        <=> "authorization" \in RuleRequest.headers)
        /\ ~SameOrigin(RuleNext.url, RuleRequest.url)
                => "authorization" \notin RuleNext.headers

\* A request carrying Authorization was redirected to the same host under
\* another scheme, and the next request carries no Authorization.
C6_Witness ==
    /\ RuleDone
    /\ ~RuleBuilt.raised
    /\ "authorization" \in RuleRequest.headers
    /\ RuleNext.url.host = RuleRequest.url.host
    /\ RuleNext.url.scheme # RuleRequest.url.scheme
    /\ "authorization" \notin RuleNext.headers

MethodChangedToGet == RuleNext.method # RuleRequest.method /\ RuleNext.method = "GET"

ReplayableBodyRule ==
    ~is_streaming(RuleRequest) =>
        /\ ~RuleBuilt.raised
        /\ RuleNext.body = IF MethodChangedToGet THEN "" ELSE RuleRequest.body

\* C7 as claimed: a streaming request redirected by a 307 raises
\* RedirectBodyUnavailable, and the same request redirected by a 303 gives
\* a GET with an empty body; a replayable body is emptied when the method
\* changed to GET and is kept otherwise.
C7_AsClaimed ==
    RuleDone =>
        /\ is_streaming(RuleRequest) /\ RuleStatus = temporary_redirect
                => RuleBuilt.raised
        /\ is_streaming(RuleRequest) /\ RuleStatus = see_other
                => ~RuleBuilt.raised /\ RuleNext.method = "GET" /\ RuleNext.body = ""
        /\ ReplayableBodyRule

\* C7 amended: as claimed, but the 303 succeeds only for the methods it
\* changes; a streaming GET or HEAD request keeps its method under a 303
\* and raises RedirectBodyUnavailable.
C7_StreamingBody ==
    RuleDone =>
        /\ is_streaming(RuleRequest) /\ RuleStatus = temporary_redirect
                => RuleBuilt.raised
        /\ is_streaming(RuleRequest) /\ RuleStatus = see_other
                /\ RuleRequest.method \notin {"GET", "HEAD"}
                => ~RuleBuilt.raised /\ RuleNext.method = "GET" /\ RuleNext.body = ""
        /\ is_streaming(RuleRequest) /\ RuleStatus = see_other
                /\ RuleRequest.method \in {"GET", "HEAD"}
                => RuleBuilt.raised
        /\ ReplayableBodyRule

\* A streaming POST was redirected by a 303 into a GET with an empty body.
C7_Witness ==
    /\ RuleDone
    /\ is_streaming(RuleRequest)
    /\ RuleRequest.method = "POST"
    /\ RuleStatus = see_other
    /\ ~RuleBuilt.raised
    /\ RuleNext.method = "GET"
    /\ RuleNext.body = ""

-----------------------------------------------------------------------------
(* Properties of send                                                      *)

CallIds == 1..Len(calls)

Finished(c) == calls[c].pc # "await"

\* A top-level call that follows redirects itself.
Automatic(c) == calls[c].kind = "send" /\ calls[c].allow_redirects

\* The number of redirect-class responses call c has received.
RedirectsGot(c) ==
    Cardinality({k \in 1..Len(calls[c].got) : is_redirect(responses[calls[c].got[k]])})

\* The list a response's history refers to, as it is now.
HistoryOf(r) == lists[responses[r].history]

\* The request whose reply was the last response call c received.
LastAnswered(c) == calls[c].sent[Len(calls[c].got)]

LastGot(c) == responses[calls[c].got[Len(calls[c].got)]]

\* C1 as claimed: an automatic chain started with an empty history fails
\* with TooManyRedirects exactly when it receives its (max + 1)-th redirect
\* response, and a returned response has at most max + 1 history entries.
C1_AsClaimed ==
    \A c \in CallIds : Automatic(c) =>
        /\ calls[c].error = "TooManyRedirects" <=> RedirectsGot(c) = max_redirects + 1
        /\ calls[c].pc = "returned"
                => Len(HistoryOf(calls[c].response)) <= max_redirects + 1

\* C1 amended: it fails with TooManyRedirects exactly when it receives its
\* (max + 1)-th redirect response and the next request can be built from
\* it; when building raises RedirectBodyUnavailable, that is the error.
C1_TooManyRedirects ==
    \A c \in CallIds : Automatic(c) =>
        /\ RedirectsGot(c) <= max_redirects + 1
        /\ calls[c].error = "TooManyRedirects"
                <=> /\ RedirectsGot(c) = max_redirects + 1
                    /\ ~build_redirect_request(LastAnswered(c), LastGot(c)).raised
        /\ calls[c].pc = "returned"
                => Len(HistoryOf(calls[c].response)) <= max_redirects + 1

\* An automatic chain with a maximum of two has failed on its third redirect.
C1_Witness ==
    \E c \in CallIds :
        /\ Automatic(c)
        /\ max_redirects = 2
        /\ RedirectsGot(c) = 3
        /\ Len(calls[c].sent) = 3
        /\ calls[c].error = "TooManyRedirects"

\* C2 as claimed: whenever the next request's URL is already in the visited
\* set the call raises RedirectLoop, and no request is handed to the
\* dispatcher for a URL that was in the visited set before that hop.
C2_AsClaimed ==
    \A c \in CallIds :
        /\ calls[c].next_visited => calls[c].error = "RedirectLoop"
        /\ calls[c].kind = "next" => ~calls[c].revisit
        /\ calls[c].pc = "await" /\ Len(calls[c].sent) > 1 => ~calls[c].next_visited

\* C3 as claimed: a continuation invoked with a captured history longer
\* than the maximum, or with a next URL that is already in the captured
\* visited set, raises before anything is handed to the dispatcher.
C3_AsClaimed ==
    \A c \in CallIds : calls[c].kind = "next" =>
        /\ Len(calls[c].base) > max_redirects
                => calls[c].error = "TooManyRedirects" /\ calls[c].sent = <<>>
        /\ Len(calls[c].base) <= max_redirects /\ calls[c].revisit
                => calls[c].error = "RedirectLoop" /\ calls[c].sent = <<>>

\* C8: a finished call has either returned a response or raised an error;
\* a returned response is a redirect exactly when it carries a
\* continuation, and then the call was made with allow_redirects false.
C8_Outcomes ==
    \A c \in CallIds :
        LET call == calls[c] IN
        /\ call.pc = "await" => call.response = 0 /\ call.error = ""
        /\ call.pc = "raised" => call.response = 0 /\ call.error # ""
        /\ call.pc = "returned" =>
            /\ call.response \in 1..Len(responses)
            /\ call.error = ""
            /\ is_redirect(responses[call.response])
                    <=> responses[call.response].next # <<>>
            /\ is_redirect(responses[call.response]) => ~call.allow_redirects

\* A manual call has returned a redirect response that carries a continuation.
C8_Witness ==
    \E c \in CallIds :
        /\ calls[c].pc = "returned"
        /\ ~calls[c].allow_redirects
        /\ is_redirect(responses[calls[c].response])
        /\ responses[calls[c].response].next # <<>>

Redirects(ids) ==
    LET IsRedirectId(r) == is_redirect(responses[r]) IN SelectSeq(ids, IsRedirectId)

Elements(seq) == {seq[i] : i \in 1..Len(seq)}

\* The history stamped on the k-th response of every call is the history
\* the call started from followed by the k - 1 responses it received
\* before, all of them redirects, and does not hold the response itself.
StampedHistories ==
    \A c \in CallIds : \A k \in 1..Len(calls[c].got) :
        LET r == calls[c].got[k] IN
        /\ HistoryOf(r) = calls[c].base \o SubSeq(calls[c].got, 1, k - 1)
        /\ \A i \in 1..Len(HistoryOf(r)) : is_redirect(responses[HistoryOf(r)[i]])
        /\ r \notin Elements(HistoryOf(r))

\* A step changes a list only by appending the redirect response that has
\* just been received to the history of the call that received it, and a
\* received response that is no redirect changes no list.
HistoryStep ==
    /\ \A l \in 1..Len(lists) :
        \/ lists'[l] = lists[l]
        \/ /\ Len(responses') = Len(responses) + 1
           /\ is_redirect(responses'[Len(responses')])
           /\ lists'[l] = Append(lists[l], Len(responses'))
           /\ \E c \in CallIds : calls[c].pc = "await" /\ calls[c].history = l
    /\ \A c \in CallIds :
        calls'[c].got # calls[c].got =>
            LET r == calls'[c].got[Len(calls'[c].got)] IN
            lists'[calls[c].history] =
                IF is_redirect(responses'[r])
                THEN Append(lists[calls[c].history], r)
                ELSE lists[calls[c].history]

\* The list a response's history refers to is never changed again.
StampedStep ==
    \A r \in 1..Len(responses) :
        /\ responses'[r].history = responses[r].history
        /\ lists'[responses[r].history] = lists[responses[r].history]

\* C10: the accumulated history only grows, by the one redirect response
\* just received; the history stamped on a response is the sequence of the
\* redirect responses that preceded it, without the response itself, and
\* no later hop changes it.
C10_History == []StampedHistories /\ [][HistoryStep /\ StampedStep]_vars

\* A call has received three responses, and the history of the third is
\* the two redirects before it.
C10_Witness ==
    \E c \in CallIds :
        /\ Len(calls[c].got) = 3
        /\ calls[c].base = <<>>
        /\ HistoryOf(calls[c].got[3]) = <<calls[c].got[1], calls[c].got[2]>>
        /\ HistoryOf(calls[c].got[2]) = <<calls[c].got[1]>>
        /\ HistoryOf(calls[c].got[1]) = <<>>

-----------------------------------------------------------------------------
(* Properties of two calls (SpecCompare, SpecPair)                         *)

\* A response by value: its status, its Location, whether it carries a
\* continuation, and the statuses and Locations of its history.
ReplyOf(r) == Reply(responses[r].status_code, responses[r].location)

ValueOf(r) ==
    [reply |-> ReplyOf(r),
     has_next |-> responses[r].next # <<>>,
     history |-> [i \in 1..Len(HistoryOf(r)) |-> ReplyOf(HistoryOf(r)[i])]]

\* C4 as claimed: with call 1 the automatic chain and calls 2, 3, ... the
\* manual steps for the same request, the k-th manual step sends the k-th
\* request of the automatic chain and receives a response with the same
\* history, and the manual response without a continuation is the response
\* the automatic chain returned.
C4_AsClaimed ==
    Len(calls) > 1 /\ Finished(1) =>
        \A c \in 2..Len(calls) :
            LET k == c - 1 IN
            /\ k <= Len(calls[1].sent)
            /\ calls[c].sent[1] = calls[1].sent[k]
            /\ calls[c].got # <<>> =>
                /\ k <= Len(calls[1].got)
                /\ ValueOf(calls[c].got[1]).history = ValueOf(calls[1].got[k]).history
                /\ ReplyOf(calls[c].got[1]) = ReplyOf(calls[1].got[k])
            /\ calls[c].pc = "returned" /\ responses[calls[c].response].next = <<>> =>
                /\ calls[1].pc = "returned"
                /\ ValueOf(calls[c].response) = ValueOf(calls[1].response)

\* C9: two interleaved top-level calls have their own history list and
\* visited set; each holds what its own call put there (the redirect
\* responses it received, the URLs it sent), every stamped history is made
\* of the call's own responses, and two calls given the same request and
\* mode proceed alike: same requests sent, same responses by value, same
\* outcome.
C9_IndependentCalls ==
    /\ \A c \in CallIds :
        /\ lists[calls[c].history] = Redirects(calls[c].got)
        /\ sets[calls[c].seen_urls] = {q.url : q \in Elements(calls[c].sent)}
        /\ \A k \in 1..Len(calls[c].got) :
                HistoryOf(calls[c].got[k]) = SubSeq(calls[c].got, 1, k - 1)
    /\ \A c, d \in CallIds : c # d =>
        /\ calls[c].history # calls[d].history
        /\ calls[c].seen_urls # calls[d].seen_urls
        /\ calls[c].first = calls[d].first
                /\ calls[c].allow_redirects = calls[d].allow_redirects =>
            /\ \A k \in 1..Len(calls[c].sent) :
                    k <= Len(calls[d].sent) => calls[c].sent[k] = calls[d].sent[k]
            /\ \A k \in 1..Len(calls[c].got) :
                    k <= Len(calls[d].got)
                        => ValueOf(calls[c].got[k]) = ValueOf(calls[d].got[k])
            /\ Finished(c) /\ Finished(d)
                    /\ "DispatchError" \notin {calls[c].error, calls[d].error} =>
                /\ calls[c].pc = calls[d].pc
                /\ calls[c].error = calls[d].error
                /\ calls[c].sent = calls[d].sent
                /\ sets[calls[c].seen_urls] = sets[calls[d].seen_urls]

\* Two automatic calls for the same request were both in flight, the
\* second started while the first was on its second hop, and both returned
\* after a redirect.
C9_Witness ==
    /\ Len(calls) = 2
    /\ calls[1].first = calls[2].first
    /\ calls[1].allow_redirects /\ calls[2].allow_redirects
    /\ calls[1].pc = "returned" /\ calls[2].pc = "returned"
    /\ Len(calls[1].got) = 2 /\ Len(calls[2].got) = 2
    /\ calls[2].got[1] > calls[1].got[1]
    /\ calls[2].got[1] < calls[1].got[2]

-----------------------------------------------------------------------------
(* The visited set, manual mode and the continuation                       *)

SentUrls(c) == {q.url : q \in Elements(calls[c].sent)}

\* Every URL handed to the dispatcher by a call is in the call's visited
\* set, together with the URLs sent by every other call on the same set,
\* the first call's initial URL among them.
VisitedHoldsSent ==
    \A c \in CallIds :
        /\ calls[c].pc = "await" => calls[c].request.url \in sets[calls[c].seen_urls]
        /\ \A d \in CallIds :
                calls[d].seen_urls = calls[c].seen_urls
                    => SentUrls(d) \subseteq sets[calls[c].seen_urls]

VisitedGrows == \A i \in 1..Len(sets) : sets[i] \subseteq sets'[i]

\* C11: at every dispatcher send, in automatic mode, in manual mode and in
\* a continuation, the URL being sent is in the visited set, the set holds
\* every URL sent earlier in the chain, and it never loses an element.
C11_VisitedSet == []VisitedHoldsSent /\ [][VisitedGrows]_vars

\* A continuation of a manual call is sending its second request, and the
\* visited set holds the three URLs sent so far.
C11_Witness ==
    \E c \in CallIds :
        /\ calls[c].kind = "next"
        /\ calls[c].pc = "await"
        /\ Len(calls[c].sent) = 2
        /\ ~calls[1].allow_redirects
        /\ calls[c].seen_urls = calls[1].seen_urls
        /\ Cardinality(sets[calls[c].seen_urls]) = 3
        /\ sets[calls[c].seen_urls] = SentUrls(1) \cup SentUrls(c)

Manual(c) == ~calls[c].allow_redirects

LimitOrLoop == {"TooManyRedirects", "RedirectLoop"}

\* C12 as claimed: a call made with allow_redirects false never raises
\* TooManyRedirects or RedirectLoop, whatever history and visited set it
\* starts from; it hands one request to the dispatcher and, when the
\* dispatcher answers, returns that response.
C12_AsClaimed ==
    \A c \in CallIds : Manual(c) =>
        /\ calls[c].error \notin LimitOrLoop
        /\ Len(calls[c].sent) = 1
        /\ calls[c].got # <<>> =>
            /\ calls[c].pc = "returned"
            /\ calls[c].response = calls[c].got[1]

\* C12 amended: as claimed, except that the response is not returned when
\* it is a redirect and building the next request raises
\* RedirectBodyUnavailable; the call then raises that error.
C12_ManualSend ==
    \A c \in CallIds : Manual(c) =>
        /\ calls[c].error \notin LimitOrLoop
        /\ Len(calls[c].sent) = 1
        /\ calls[c].got # <<>> =>
            LET unavailable ==
                    /\ is_redirect(LastGot(c))
                    /\ build_redirect_request(calls[c].first, LastGot(c)).raised
            IN  /\ unavailable
                    => calls[c].pc = "raised"
                        /\ calls[c].error = "RedirectBodyUnavailable"
                /\ ~unavailable
                    => calls[c].pc = "returned"
                        /\ calls[c].response = calls[c].got[1]

\* A continuation invoked with allow_redirects false, whose captured
\* history is longer than the maximum, has returned a redirect whose
\* target was already in the visited set.
C12_Witness ==
    \E c \in CallIds :
        /\ Manual(c)
        /\ calls[c].kind = "next"
        /\ Len(calls[c].base) > max_redirects
        /\ calls[c].next_visited
        /\ calls[c].pc = "returned"
        /\ is_redirect(responses[calls[c].response])

\* Calls c and d, d the later one, invoke the same continuation in the
\* same mode.
SameContinuation(c, d) ==
    /\ c < d
    /\ calls[c].kind = "next" /\ calls[d].kind = "next"
    /\ calls[c].from = calls[d].from
    /\ calls[c].allow_redirects = calls[d].allow_redirects

\* C13 as claimed: invoking a continuation leaves the history it captured
\* as it was (also when the invocation ends in an error), so a second
\* invocation starts from the same history, sends the same requests and
\* ends the same way with the same response history.
C13_AsClaimed ==
    \A c, d \in CallIds : SameContinuation(c, d) =>
        /\ calls[d].base = calls[c].base
        /\ Finished(c) /\ Finished(d)
                /\ "DispatchError" \notin {calls[c].error, calls[d].error} =>
            /\ calls[d].sent = calls[c].sent
            /\ calls[d].pc = calls[c].pc
            /\ calls[d].error = calls[c].error
            /\ calls[c].pc = "returned"
                    => ValueOf(calls[d].response) = ValueOf(calls[c].response)

-----------------------------------------------------------------------------
(* Termination: one automatic top-level call, the dispatcher answering     *)
(* (or failing) every request it is handed.                               *)

NextAutomatic ==
    \/ \E request \in Requests, options \in OptionSets :
            calls = <<>> /\ Send(request, TRUE, options)
    \/ DispatchReturns(1)
    \/ DispatchRaises(1)

SpecAutomatic ==
    Init /\ [][NextAutomatic]_vars /\ WF_vars(DispatchReturns(1))

SendsWithinLimit ==
    \A c \in CallIds : Automatic(c) => Len(calls[c].sent) <= max_redirects + 1

\* C14: an automatic chain started with an empty history hands at most
\* max + 1 requests to the dispatcher, and once the call is made it ends,
\* by a return or by an error.
C14_Terminates ==
    /\ []SendsWithinLimit
    /\ (calls # <<>>) ~> (calls # <<>> /\ Finished(1))

\* The dispatcher has answered every request with a redirect to a URL not
\* yet visited, and the chain has ended after max + 1 sends.
C14_Witness ==
    /\ calls # <<>>
    /\ max_redirects = 2
    /\ Len(calls[1].sent) = 3
    /\ RedirectsGot(1) = 3
    /\ Finished(1)
    /\ Cardinality(sets[calls[1].seen_urls]) = 3

-----------------------------------------------------------------------------
\* Call c has left the loop on a redirect-class response.
EndedOnRedirect(c) ==
    /\ Finished(c)
    /\ calls[c].error # "DispatchError"
    /\ calls[c].got # <<>>
    /\ is_redirect(LastGot(c))

\* The length of call c's history once its last redirect was appended.
HistoryLength(c) == Len(calls[c].base) + RedirectsGot(c)

\* The outcome of the last hop of call c, the steps taken in the order
\* build, manual suspension, limit check, loop check.
OutcomeInOrder(c) ==
    IF build_redirect_request(LastAnswered(c), LastGot(c)).raised
    THEN "RedirectBodyUnavailable"
    ELSE IF ~calls[c].allow_redirects THEN "suspended"
    ELSE IF HistoryLength(c) > max_redirects THEN "TooManyRedirects"
    ELSE IF calls[c].next_visited THEN "RedirectLoop"
    ELSE "sent"

OutcomeOf(c) ==
    IF calls[c].pc = "raised" THEN calls[c].error
    ELSE IF responses[calls[c].response].next # <<>> THEN "suspended"
    ELSE "returned"

\* C15: on a redirect response the response is appended to the history
\* first, then the next request is built, then a manual call suspends, then
\* the limit is checked, then the loop: RedirectBodyUnavailable comes
\* before the limit and loop errors and is raised in manual mode too, and
\* TooManyRedirects comes before RedirectLoop.
C15_StepOrder ==
    \A c \in CallIds : EndedOnRedirect(c) =>
        /\ calls[c].got[Len(calls[c].got)] \in Elements(lists[calls[c].history])
        /\ OutcomeOf(c) = OutcomeInOrder(c)

\* A manual call suspended although the limit was exceeded and the next URL
\* visited, and the automatic continuation failed with TooManyRedirects
\* although its next URL was visited too.
C15_Witness ==
    \E c, d \in CallIds :
        /\ ~calls[c].allow_redirects /\ EndedOnRedirect(c)
        /\ OutcomeOf(c) = "suspended"
        /\ HistoryLength(c) > max_redirects /\ calls[c].next_visited
        /\ calls[d].allow_redirects /\ EndedOnRedirect(d)
        /\ calls[d].error = "TooManyRedirects" /\ calls[d].next_visited

-----------------------------------------------------------------------------
\* Call c was awaiting the dispatcher and has taken a step without
\* receiving a response.
AwaitFails(c) ==
    /\ calls[c].pc = "await"
    /\ calls'[c] # calls[c]
    /\ calls'[c].got = calls[c].got

\* A call ended by the dispatcher's failure has one request unanswered,
\* returns no response and is over.
FailedCallsAreOver ==
    \A c \in CallIds : calls[c].error = "DispatchError" =>
        /\ calls[c].pc = "raised"
        /\ calls[c].response = 0
        /\ Len(calls[c].sent) = Len(calls[c].got) + 1

\* The failure leaves send at once: no request is built or sent, and the
\* history, the visited set and the responses are as they were.
FailureStep ==
    \A c \in CallIds :
        /\ AwaitFails(c) =>
            /\ calls'[c] = [calls[c] EXCEPT !.pc = "raised",
                                            !.error = "DispatchError"]
            /\ UNCHANGED <<lists, sets, responses, transport>>
        /\ calls[c].error = "DispatchError" => calls'[c] = calls[c]

\* C16: when a transport send fails or is cancelled the chain terminates
\* immediately with that failure: no next request is built, no further
\* send is made, and the history is not extended.
C16_TransportFailure == []FailedCallsAreOver /\ [][FailureStep]_vars

\* A chain has followed a redirect and the dispatcher failed on the second
\* request: the history holds the one redirect received.
C16_Witness ==
    \E c \in CallIds :
        /\ calls[c].error = "DispatchError"
        /\ Len(calls[c].sent) = 2
        /\ Len(calls[c].got) = 1
        /\ Len(lists[calls[c].history]) = 1

-----------------------------------------------------------------------------
(* The requests of one chain: rule_out is the sequence of requests, each   *)
(* built from the one before it and the redirect received for it, and     *)
(* rule_in the sequence of Location values received.                      *)

MaxHops == 2

HopRequests ==
    { Request(m, URL("http", "a.example", 0, "/x", f), {"authorization"}, "data") :
        m \in {"GET", "POST"}, f \in Fragments }

HopLocations ==
    { Location("", FALSE, "", 0, q, f) : q \in {"", "/y"}, f \in {"", "sec"} } \cup
    { Location(s, TRUE, "b.example", 0, "/y", f) : s \in {"", "https"}, f \in {"", "sec"} }

InitHops ==
    /\ max_redirects = MaxHops
    /\ transport = <<>>
    /\ responses = <<>>
    /\ lists = <<>>
    /\ sets = <<>>
    /\ calls = <<>>
    /\ rule_in = <<>>
    /\ rule_out \in { <<q>> : q \in HopRequests }

\* request = self.build_redirect_request(request, response), once per
\* redirect followed.
FollowRedirect ==
    /\ Len(rule_in) < MaxHops
    /\ \E status \in {found, temporary_redirect}, location \in HopLocations :
        LET built == build_redirect_request(rule_out[Len(rule_out)],
                        Response(Reply(status, location), 0, <<>>))
        IN  /\ ~built.raised
            /\ rule_out' = Append(rule_out, built.request)
            /\ rule_in' = Append(rule_in, location)
    /\ UNCHANGED <<max_redirects, transport, responses, lists, sets, calls>>

NextHops == FollowRedirect

SpecHops == InitHops /\ [][NextHops]_vars

\* No Location up to hop k carries a fragment.
NoFragmentUpTo(k) == \A j \in 1..k : rule_in[j].fragment = ""

\* C17: at every hop the next URL's fragment is the Location's when it has
\* one and the current request URL's otherwise; so the initial URL's
\* fragment is on every later request until a Location supplies its own.
C17_Fragment ==
    \A k \in 1..Len(rule_in) :
        /\ rule_out[k + 1].url.fragment =
                IF rule_in[k].fragment # "" THEN rule_in[k].fragment
                ELSE rule_out[k].url.fragment
        /\ NoFragmentUpTo(k) =>
                rule_out[k + 1].url.fragment = rule_out[1].url.fragment

\* The initial fragment has been carried over two hops, one of them to
\* another origin, by Locations that have none.
C17_Witness ==
    /\ Len(rule_in) = 2
    /\ NoFragmentUpTo(2)
    /\ rule_out[1].url.fragment = "top"
    /\ rule_out[3].url.fragment = "top"
    /\ rule_out[3].url.host = "b.example"

-----------------------------------------------------------------------------
\* The call whose returned response carries the continuation call c runs.
ParentCall(c) == CHOOSE d \in CallIds : calls[d].response = calls[c].from

\* The requests handed to the dispatcher along the chain of call c, from
\* the top-level call through the continuations to c.
RECURSIVE ChainSent(_)
ChainSent(c) ==
    IF calls[c].kind = "send" THEN calls[c].sent
    ELSE ChainSent(ParentCall(c)) \o calls[c].sent

\* Hop i of the sequence leads to another origin and drops Authorization.
RemovesAuthorization(seq, i) ==
    /\ "authorization" \in seq[i].headers
    /\ Origin(seq[i + 1].url) # Origin(seq[i].url)
    /\ "authorization" \notin seq[i + 1].headers

\* C18: along a chain, automatic or stepped through continuations, once a
\* cross-origin hop has removed the Authorization header no later request
\* carries it, even back at the initial origin.
C18_AuthorizationStaysRemoved ==
    \A c \in CallIds :
        LET seq == ChainSent(c) IN
        \A i \in 1..(Len(seq) - 1) :
            /\ "authorization" \in seq[i].headers
                    /\ Origin(seq[i + 1].url) # Origin(seq[i].url)
                => RemovesAuthorization(seq, i)
            /\ RemovesAuthorization(seq, i) =>
                    \A j \in (i + 1)..Len(seq) : "authorization" \notin seq[j].headers

\* A chain stepped through a continuation has left the initial origin,
\* losing Authorization, and come back to it without the header.
C18_Witness ==
    \E c \in CallIds :
        LET seq == ChainSent(c) IN
        /\ calls[c].kind = "next"
        /\ Len(seq) >= 3
        /\ RemovesAuthorization(seq, 1)
        /\ Origin(seq[Len(seq)].url) = Origin(seq[1].url)
        /\ "authorization" \notin seq[Len(seq)].headers

-----------------------------------------------------------------------------
\* Call c is response.next() with no allow_redirects given.
DefaultContinuation(c) == calls[c].kind = "next" /\ ~calls[c].explicit

\* C19: the continuation does not capture allow_redirects: called without
\* it, it follows redirects itself, so a response it returns is no
\* redirect and carries no further continuation; the caller's other
\* options go unchanged to the dispatcher with every request it sends.
C19_ContinuationDefaults ==
    \A c \in CallIds : DefaultContinuation(c) =>
        /\ calls[c].allow_redirects
        /\ calls[c].pc = "returned" =>
                /\ responses[calls[c].response].next = <<>>
                /\ ~is_redirect(responses[calls[c].response])
        /\ Len(calls[c].passed) = Len(calls[c].sent)
        /\ \A k \in 1..Len(calls[c].passed) :
                calls[c].passed[k] = calls[ParentCall(c)].options

\* response.next() of a call made with a timeout option has followed a
\* further redirect and returned, the option passed with both requests.
C19_Witness ==
    \E c \in CallIds :
        /\ DefaultContinuation(c)
        /\ calls[ParentCall(c)].kind = "send"
        /\ calls[ParentCall(c)].options = {"timeout"}
        /\ ~calls[ParentCall(c)].allow_redirects
        /\ Len(calls[c].sent) = 2
        /\ calls[c].passed = <<{"timeout"}, {"timeout"}>>
        /\ calls[c].pc = "returned"

\* C20: in an automatic chain started with an empty history and no
\* visited set given, whenever a request is with the dispatcher the visited
\* set has len(history) + 1 elements and the URLs of the requests sent so
\* far are pairwise distinct.
C20_VisitedCount ==
    \A c \in CallIds : Automatic(c) /\ calls[c].pc = "await" =>
        /\ Cardinality(sets[calls[c].seen_urls]) = Len(lists[calls[c].history]) + 1
        /\ \A i, j \in 1..Len(calls[c].sent) :
                i # j => calls[c].sent[i].url # calls[c].sent[j].url

\* The third request of an automatic chain is with the dispatcher: two
\* redirects in the history, three URLs visited.
C20_Witness ==
    \E c \in CallIds :
        /\ Automatic(c) /\ calls[c].pc = "await"
        /\ Len(calls[c].sent) = 3
        /\ Len(lists[calls[c].history]) = 2
        /\ Cardinality(sets[calls[c].seen_urls]) = 3

====
